---------------------------- MODULE Spec2Model ----------------------------
(***************************************************************************)
(* A model of the historical balance / currency conversion engine of       *)
(* piecash-scripts (src/src/utils.py) and of the aggregation methods of    *)
(* BookAnalysis (src/src/analysis.py).                                     *)
(*                                                                         *)
(* The book (accounts, splits, prices) is read-only for the engine: it is  *)
(* chosen by Init and never changes.  Every action is one call of a public *)
(* function; `call` records its arguments and `result` what it returned or *)
(* raised.                                                                 *)
(*                                                                         *)
(* Numbers.  Quantities and prices are Decimals in the book and floats in  *)
(* the engine.  They are modelled as exact fractions <<n, d>> (d > 0, in   *)
(* lowest terms): float(), *, + and 1/x are the exact operations, floating *)
(* point rounding is not modelled.                                         *)
(***************************************************************************)
EXTENDS Integers, Sequences, FiniteSets, TLC

VARIABLES
    parent,          \* account -> its parent account (the root maps to itself)
    acct_name,       \* account -> its name, a string of characters (Account.name)
    acct_commodity,  \* account -> its commodity                (Account.commodity)
    sign,            \* account -> +1 or -1                      (Account.sign)
    splits,          \* set of [account, quantity, post_date]    (Account.splits)
    prices,          \* set of [commodity, currency, date, value] (Commodity.prices)
    cache,           \* the caller's closest_conv_cache object, or None
    call,            \* the last call made: its name and arguments
    result           \* what the last call returned or raised

vars == <<parent, acct_name, acct_commodity, sign, splits, prices, cache, call, result>>
book == <<parent, acct_name, acct_commodity, sign, splits, prices>>

---------------------------------------------------------------------------
(* Bounds of the model *)

MaxDate == 2
MaxPrices == 2
MaxCache == 1
MaxSplits == 2
MaxNames == 2
MaxStep == 2
MaxCats == 3
MaxRows == 2
MaxTop == 4

Dates == 0..MaxDate
Commodities == {"USD", "EUR", "GBP"}

\* at_date = None
NoDate == -1
\* commodity = None
NoCommodity == "None"

---------------------------------------------------------------------------
(* Exact fractions *)

Abs(x) == IF x < 0 THEN -x ELSE x

RECURSIVE GCD(_, _)
GCD(a, b) == IF b = 0 THEN a ELSE GCD(b, a % b)

Frac(n, d) ==
    LET g == GCD(Abs(n), Abs(d))
        s == IF d < 0 THEN -1 ELSE 1
    IN  <<(s * n) \div g, (s * d) \div g>>

Zero == <<0, 1>>
One == <<1, 1>>
FromInt(n) == <<n, 1>>
FMul(x, y) == Frac(x[1] * y[1], x[2] * y[2])
FAdd(x, y) ==
    Frac(x[1] * (y[2] \div GCD(x[2], y[2])) + y[1] * (x[2] \div GCD(x[2], y[2])),
         x[2] * (y[2] \div GCD(x[2], y[2])))
FInv(x) == Frac(x[2], x[1])

---------------------------------------------------------------------------
(* Sets of at most k elements of S *)

RECURSIVE SubsetsUpTo(_, _)
SubsetsUpTo(S, k) ==
    IF k = 0 THEN {{}}
    ELSE LET prev == SubsetsUpTo(S, k - 1)
         IN  prev \cup {T \cup {x} : T \in prev, x \in S}

---------------------------------------------------------------------------
(* Outcomes of a call: a returned value or a raised exception, with the    *)
(* state of the cache object the callee worked on and the price searches   *)
(* (utils.py lines 70-72) it performed, in order.                          *)

Returned(v, c, l) == [kind |-> "ok", val |-> v, cache |-> c, log |-> l]
Raised(e, c, l) == [kind |-> e, val |-> Zero, cache |-> c, log |-> l]

\* closest_conv_cache: None, or a dict pair -> date -> factor, held as a set of
\* entries [pair, date, val] with at most one entry per (pair, date).
None == [some |-> FALSE, m |-> {}]
EmptyDict == [some |-> TRUE, m |-> {}]

CacheHas(c, pair, d) == \E e \in c.m : e.pair = pair /\ e.date = d
CacheGet(c, pair, d) == (CHOOSE e \in c.m : e.pair = pair /\ e.date = d).val
\* CachePut filing the value under the pair the other way round
CachePutReversed(c, pair, d, v) ==
    [some |-> TRUE,
     m |-> {e \in c.m : ~(e.pair = <<pair[2], pair[1]>> /\ e.date = d)}
           \cup {[pair |-> <<pair[2], pair[1]>>, date |-> d, val |-> v]}]

CachePut(c, pair, d, v) ==
    [some |-> TRUE,
     m |-> {e \in c.m : ~(e.pair = pair /\ e.date = d)}
           \cup {[pair |-> pair, date |-> d, val |-> v]}]

---------------------------------------------------------------------------
(* currency_conversion_on_date, utils.py lines 50-104 *)

\* min(rates, key=lambda p: abs(p.date - on_date)) over rates ordered by date
\* ascending: the first of the closest records, i.e. the earliest one.
Closest(rates, on_date) ==
    CHOOSE p \in rates :
        \A q \in rates :
            \/ Abs(p.date - on_date) < Abs(q.date - on_date)
            \/ Abs(p.date - on_date) = Abs(q.date - on_date) /\ p.date <= q.date

\* ChooseClosest with line 94 comparing with < : the reverse record wins a tie
ChooseClosestReverseOnTie(forward_rates, reverse_rates, on_date) ==
    IF forward_rates = {} /\ reverse_rates = {} THEN {}
    ELSE IF reverse_rates = {} THEN {Closest(forward_rates, on_date).value}
    ELSE IF forward_rates = {} THEN {FInv(Closest(reverse_rates, on_date).value)}
    ELSE IF Abs(Closest(forward_rates, on_date).date - on_date)
            < Abs(Closest(reverse_rates, on_date).date - on_date)
    THEN {Closest(forward_rates, on_date).value}
    ELSE {FInv(Closest(reverse_rates, on_date).value)}

\* lines 83-97: the factor chosen from the closest forward and reverse records
\* (an empty set stands for None); the empty set when there is neither.
ChooseClosest(forward_rates, reverse_rates, on_date) ==
    IF forward_rates = {} /\ reverse_rates = {} THEN {}
    ELSE IF reverse_rates = {} THEN {Closest(forward_rates, on_date).value}
    ELSE IF forward_rates = {} THEN {FInv(Closest(reverse_rates, on_date).value)}
    ELSE LET closest_forward == Closest(forward_rates, on_date)
             closest_reverse == Closest(reverse_rates, on_date)
         IN  IF Abs(closest_forward.date - on_date) <= Abs(closest_reverse.date - on_date)
             THEN {closest_forward.value}
             ELSE {FInv(closest_reverse.value)}

\* StoreClosest without lines 100-103: nothing is stored
StoreNothing(closest_conv_cache, pair, on_date, closest) == closest_conv_cache

\* lines 100-103: the result is stored when a cache was passed
StoreClosest(closest_conv_cache, pair, on_date, closest) ==
    IF closest_conv_cache.some
    THEN CachePut(closest_conv_cache, pair, on_date, closest)
    ELSE closest_conv_cache

\* Resolved with a factor of 1 in place of line 85's raise
ResolvedOrOne(pair, on_date, closest_conv_cache, found) ==
    IF found = {}
    THEN Returned(One, StoreClosest(closest_conv_cache, pair, on_date, One),
                  <<<<pair[1], pair[2], on_date>>>>)
    ELSE Returned(CHOOSE v \in found : TRUE,
                  StoreClosest(closest_conv_cache, pair, on_date, CHOOSE v \in found : TRUE),
                  <<<<pair[1], pair[2], on_date>>>>)

\* lines 83-104, given what lines 69-97 found
Resolved(pair, on_date, closest_conv_cache, found) ==
    IF found = {}
    THEN Raised("PriceNotFoundError", closest_conv_cache, <<<<pair[1], pair[2], on_date>>>>)
    ELSE Returned(CHOOSE v \in found : TRUE,
                  StoreClosest(closest_conv_cache, pair, on_date, CHOOSE v \in found : TRUE),
                  <<<<pair[1], pair[2], on_date>>>>)

\* SameCommodity when lines 64-65 come after the cache is set up: 1 is stored
SameCommodityStored(commodity, on_date, closest_conv_cache) ==
    Returned(One, StoreClosest(closest_conv_cache, <<commodity, commodity>>, on_date, One), <<>>)

\* lines 64-65
SameCommodity(commodity, on_date, closest_conv_cache) ==
    Returned(One, closest_conv_cache, <<>>)

currency_conversion_on_date(commodity, currency, on_date, closest_conv_cache) ==
    IF commodity = currency
    THEN SameCommodity(commodity, on_date, closest_conv_cache)
    ELSE IF closest_conv_cache.some /\ CacheHas(closest_conv_cache, <<commodity, currency>>, on_date)
    THEN Returned(CacheGet(closest_conv_cache, <<commodity, currency>>, on_date),
                  closest_conv_cache, <<>>)
    ELSE Resolved(<<commodity, currency>>, on_date, closest_conv_cache,
                  ChooseClosest({p \in prices : p.commodity = commodity /\ p.currency = currency},
                                {p \in prices : p.commodity = currency /\ p.currency = commodity},
                                on_date))

---------------------------------------------------------------------------
(* Commodity.currency_conversion of piecash, called at utils.py lines 146  *)
(* and 155-156 when at_date is None: the latest forward price, else the    *)
(* inverse of the latest reverse price, else GncConversionError.           *)

Latest(rates) == CHOOSE p \in rates : \A q \in rates : q.date <= p.date

currency_conversion(commodity, currency, closest_conv_cache) ==
    LET forward_rates == {p \in prices : p.commodity = commodity /\ p.currency = currency}
        reverse_rates == {p \in prices : p.commodity = currency /\ p.currency = commodity}
    IN  IF forward_rates # {}
        THEN Returned(Latest(forward_rates).value, closest_conv_cache, <<>>)
        ELSE IF reverse_rates # {}
        THEN Returned(FInv(Latest(reverse_rates).value), closest_conv_cache, <<>>)
        ELSE Raised("GncConversionError", closest_conv_cache, <<>>)

---------------------------------------------------------------------------
(* get_historical_balance, utils.py lines 107-176 *)

Root == 0

RECURSIVE SumQuantities(_)
SumQuantities(sps) ==
    IF sps = {} THEN 0
    ELSE LET sp == CHOOSE x \in sps : TRUE
         IN  sp.quantity * splits[sp] + SumQuantities(sps \ {sp})

\* Posted with line 134 comparing with < : a split posted on at_date is left out
PostedBefore(sp, at_date) == at_date = NoDate \/ sp.post_date < at_date

\* lines 127-136: the splits that count at at_date
Posted(sp, at_date) == at_date = NoDate \/ sp.post_date <= at_date

\* lines 127-137
OwnBalance(account, at_date) ==
    FromInt(SumQuantities({sp \in DOMAIN splits :
                              sp.account = account /\ Posted(sp, at_date)}))

\* One conversion of lines 144/146, 151/155 or 153/156.
Conversion(from, to, at_date, closest_conv_cache) ==
    IF at_date # NoDate
    THEN currency_conversion_on_date(from, to, at_date, closest_conv_cache)
    ELSE currency_conversion(from, to, closest_conv_cache)

\* SecondHop with line 157 forgetting the first factor
SecondHopAlone(failed, factor1, factor2) ==
    IF factor2.kind # "ok"
    THEN Raised(factor2.kind, factor2.cache, failed.log \o factor1.log \o factor2.log)
    ELSE Returned(factor2.val, factor2.cache, failed.log \o factor1.log \o factor2.log)

\* lines 153/156-157, given the outcome of the first hop
SecondHop(failed, factor1, factor2) ==
    IF factor2.kind # "ok"
    THEN Raised(factor2.kind, factor2.cache, failed.log \o factor1.log \o factor2.log)
    ELSE Returned(FMul(factor1.val, factor2.val), factor2.cache,
                  failed.log \o factor1.log \o factor2.log)

\* lines 151-157, given the outcome of the first hop
FirstHop(via, commodity, at_date, failed, factor1) ==
    IF factor1.kind # "ok"
    THEN Raised(factor1.kind, factor1.cache, failed.log \o factor1.log)
    ELSE SecondHop(failed, factor1, Conversion(via, commodity, at_date, factor1.cache))

\* lines 148-157: the factor through the parent's commodity, after the direct
\* conversion `failed`.  The root account has no parent (parent is None).
ViaParent(account, commodity, at_date, failed) ==
    IF account = Root
    THEN Raised("AttributeError", failed.cache, failed.log)
    ELSE FirstHop(acct_commodity[parent[account]], commodity, at_date, failed,
                  Conversion(acct_commodity[account], acct_commodity[parent[account]],
                             at_date, failed.cache))

\* lines 147-148, given the outcome of the direct conversion
DirectOrViaParent(account, commodity, at_date, direct) ==
    IF direct.kind = "ok" THEN direct
    ELSE ViaParent(account, commodity, at_date, direct)

\* lines 138-158: the factor applied to the account's own balance, and the
\* value of the local variable closest_conv_cache afterwards.
Factor(account, commodity, at_date, closest_conv_cache) ==
    IF commodity = acct_commodity[account]
    THEN Returned(One, closest_conv_cache, <<>>)
    ELSE DirectOrViaParent(account, commodity, at_date,
             Conversion(acct_commodity[account], commodity, at_date,
                        IF at_date # NoDate /\ ~closest_conv_cache.some
                        THEN EmptyDict ELSE closest_conv_cache))

\* account.children, in order
Children(account) == {a \in DOMAIN parent : a # Root /\ parent[a] = account}

RECURSIVE InOrder(_)
InOrder(accs) ==
    IF accs = {} THEN <<>>
    ELSE <<CHOOSE a \in accs : \A b \in accs : a <= b>>
         \o InOrder(accs \ {CHOOSE a \in accs : \A b \in accs : a <= b})

\* ApplySign applied whatever natural_sign says
ApplySignAlways(account, natural_sign, balance) == FMul(balance, FromInt(sign[account]))

\* lines 173-176
ApplySign(account, natural_sign, balance) ==
    IF natural_sign THEN FMul(balance, FromInt(sign[account])) ELSE balance

\* What the caller sees of the cache it passed: the same object, or still None.
Seen(closest_conv_cache, local) == IF closest_conv_cache.some THEN local ELSE None

\* lines 161 and 172-176, given the outcomes of lines 138-158 and 161-171
Total(account, natural_sign, at_date, closest_conv_cache, factor, children) ==
    IF children.kind # "ok"
    THEN Raised(children.kind, Seen(closest_conv_cache, children.cache),
                factor.log \o children.log)
    ELSE Returned(ApplySign(account, natural_sign,
                            FAdd(FMul(OwnBalance(account, at_date), factor.val),
                                 children.val)),
                  Seen(closest_conv_cache, children.cache), factor.log \o children.log)

\* the generator's sum so far plus the rest of the children
AddRest(first, rest) ==
    IF rest.kind # "ok"
    THEN Raised(rest.kind, rest.cache, first.log \o rest.log)
    ELSE Returned(FAdd(first.val, rest.val), rest.cache, first.log \o rest.log)

RECURSIVE get_historical_balance(_, _, _, _, _, _)
RECURSIVE SumChildren(_, _, _, _, _)
RECURSIVE SumRest(_, _, _, _, _)

\* SumChildren asking each child for its balance with natural_sign = True
SumChildrenSigned(accs, recurse, commodity, at_date, closest_conv_cache) ==
    IF accs = <<>> THEN Returned(Zero, closest_conv_cache, <<>>)
    ELSE SumRest(get_historical_balance(Head(accs), recurse, commodity, TRUE, at_date,
                                        closest_conv_cache),
                 Tail(accs), recurse, commodity, at_date)

\* lines 160-171: sum(get_historical_balance(acc, ...) for acc in account.children)
SumRest(first, accs, recurse, commodity, at_date) ==
    IF first.kind # "ok" THEN first
    ELSE AddRest(first, SumChildren(accs, recurse, commodity, at_date, first.cache))

SumChildren(accs, recurse, commodity, at_date, closest_conv_cache) ==
    IF accs = <<>> THEN Returned(Zero, closest_conv_cache, <<>>)
    ELSE SumRest(get_historical_balance(Head(accs), recurse, commodity, FALSE, at_date,
                                        closest_conv_cache),
                 Tail(accs), recurse, commodity, at_date)

\* lines 160-176, given the outcome of lines 138-158
Recurse(account, recurse, commodity, natural_sign, at_date, closest_conv_cache, factor) ==
    IF factor.kind # "ok"
    THEN Raised(factor.kind, Seen(closest_conv_cache, factor.cache), factor.log)
    ELSE Total(account, natural_sign, at_date, closest_conv_cache, factor,
               IF recurse /\ Children(account) # {}
               THEN SumChildren(InOrder(Children(account)), recurse, commodity, at_date,
                                factor.cache)
               ELSE Returned(Zero, factor.cache, <<>>))

\* lines 124-125
TargetCommodity(account, commodity) ==
    IF commodity = NoCommodity THEN acct_commodity[account] ELSE commodity

get_historical_balance(account, recurse, commodity, natural_sign, at_date, closest_conv_cache) ==
    Recurse(account, recurse, TargetCommodity(account, commodity), natural_sign,
            at_date, closest_conv_cache,
            Factor(account, TargetCommodity(account, commodity), at_date,
                   closest_conv_cache))

---------------------------------------------------------------------------
(* BookAnalysis, analysis.py *)

\* str.split(':'), line 47: the pieces of a string between its colons
RECURSIVE split(_, _)
split(s, piece) ==
    IF s = <<>> THEN <<piece>>
    ELSE IF Head(s) = ":" THEN <<piece>> \o split(Tail(s), <<>>)
    ELSE split(Tail(s), Append(piece, Head(s)))

\* account.children(name=t), line 50: the child of that name, else KeyError
RECURSIVE descend(_, _)
descend(account, tokens) ==
    IF tokens = <<>> THEN [kind |-> "ok", account |-> account]
    ELSE IF \E a \in Children(account) : acct_name[a] = Head(tokens)
    THEN descend(CHOOSE a \in Children(account) : acct_name[a] = Head(tokens), Tail(tokens))
    ELSE [kind |-> "KeyError", account |-> account]

\* lines 40-51
get_account(full_name) == descend(Root, split(full_name, <<>>))

\* The parameters of get_historical_balance (utils.py lines 107-109) and the
\* keyword arguments analysis.py lines 77-79 call it with.
Parameters == {"account", "recurse", "commodity", "natural_sign", "at_date", "closest_conv_cache"}
AggBalanceKeywords == {"commodity", "at_date", "via", "natural_sign"}

\* lines 77-79, one element of the generator: the account is looked up, then
\* get_historical_balance is called; a keyword that is no parameter is a
\* TypeError of the call.
BalanceOfNamed(acct, currency, at_date) ==
    IF acct.kind # "ok" THEN Raised(acct.kind, None, <<>>)
    ELSE IF ~(AggBalanceKeywords \subseteq Parameters) THEN Raised("TypeError", None, <<>>)
    ELSE get_historical_balance(acct.account, TRUE, currency, FALSE, at_date, None)

\* sum(...) of lines 77-79, given the first element
AddNamed(first, rest) ==
    IF first.kind # "ok" THEN first
    ELSE IF rest.kind # "ok" THEN rest
    ELSE Returned(FAdd(first.val, rest.val), None, first.log \o rest.log)

\* lines 72-79
RECURSIVE agg_balance(_, _, _)
agg_balance(account_names, currency, at_date) ==
    IF account_names = <<>> THEN Returned(Zero, None, <<>>)
    ELSE AddNamed(BalanceOfNamed(get_account(Head(account_names)), currency, at_date),
                  agg_balance(Tail(account_names), currency, at_date))

\* utils.py lines 38-42
RECURSIVE date_range(_, _, _)
date_range(start, end, step) ==
    IF start < end THEN <<start>> \o date_range(start + step, end, step) ELSE <<>>

\* lines 162-164, given the balance at the first date
AppendRest(d, first, rest) ==
    IF first.kind # "ok" THEN [kind |-> first.kind, series |-> <<>>]
    ELSE IF rest.kind # "ok" THEN rest
    ELSE [kind |-> "ok", series |-> <<<<d, first.val>>>> \o rest.series]

\* lines 160-165, over the dates still to come
RECURSIVE SeriesOver(_, _, _)
SeriesOver(ds, account_names, currency) ==
    IF ds = <<>> THEN [kind |-> "ok", series |-> <<>>]
    ELSE AppendRest(Head(ds), agg_balance(account_names, currency, Head(ds)),
                    SeriesOver(Tail(ds), account_names, currency))

\* lines 144-165, currency being a piecash.Commodity
agg_balance_over_time(account_names, start, end, step, currency) ==
    SeriesOver(date_range(start, end, step), account_names, currency)

---------------------------------------------------------------------------
(* balance_by_currency and diff_balance, analysis.py.  A pandas Series is  *)
(* a function from its index to its values.                                *)

\* pd.Series({})
EmptySeries == [k \in {} |-> Zero]

ValueAt(x, k) == IF k \in DOMAIN x THEN x[k] ELSE Zero

\* Series.add(other, fill_value=0)
Add(x, y) ==
    [k \in DOMAIN x \cup DOMAIN y |-> FAdd(ValueAt(x, k), ValueAt(y, k))]

\* Subtract keeping only the labels both series have
SubtractCommon(x, y) ==
    [k \in DOMAIN x \cap DOMAIN y |-> FAdd(x[k], FMul(FromInt(-1), y[k]))]

\* Series.subtract(other, fill_value=0)
Subtract(x, y) ==
    [k \in DOMAIN x \cup DOMAIN y |->
        FAdd(ValueAt(x, k), FMul(FromInt(-1), ValueAt(y, k)))]

\* Entry with the balance filed under the currency it is expressed in
EntryUnderTarget(account, currency, balance) ==
    IF balance = Zero THEN EmptySeries
    ELSE [k \in {TargetCommodity(account, currency)} |-> balance]

\* lines 221-224: a non-zero balance is filed under the account's own
\* commodity code
Entry(account, currency, balance) ==
    IF balance = Zero THEN EmptySeries
    ELSE [k \in {acct_commodity[account]} |-> balance]

\* lines 220-224, given the outcome of get_historical_balance
OwnEntry(account, currency, balance) ==
    IF balance.kind # "ok" THEN [kind |-> balance.kind, series |-> EmptySeries]
    ELSE [kind |-> "ok", series |-> Entry(account, currency, balance.val)]

\* line 226, given the outcome of the child's balance_by_currency
AddChild(series, child) ==
    IF child.kind # "ok" THEN child
    ELSE [kind |-> "ok", series |-> Add(series.series, child.series)]

RECURSIVE balance_by_currency(_, _, _)
RECURSIVE AddChildren(_, _, _, _)

\* lines 225-226
AddChildren(series, accs, at_date, currency) ==
    IF accs = <<>> \/ series.kind # "ok" THEN series
    ELSE AddChildren(AddChild(series, balance_by_currency(Head(accs), at_date, currency)),
                     Tail(accs), at_date, currency)

\* lines 207-231, currency being None or a piecash.Commodity
balance_by_currency(account, at_date, currency) ==
    AddChildren(OwnEntry(account, currency,
                         get_historical_balance(account, FALSE, currency, TRUE, at_date, None)),
                InOrder(Children(account)), at_date, currency)

\* line 106, given the factor of line 106's currency_conversion_on_date
Term(factor, quantity) ==
    IF factor.kind # "ok" THEN Raised(factor.kind, None, factor.log)
    ELSE Returned(FMul(factor.val, quantity), None, factor.log)

\* total += ..., line 106
AddTerm(first, rest) ==
    IF first.kind # "ok" THEN first
    ELSE IF rest.kind # "ok" THEN rest
    ELSE Returned(FAdd(first.val, rest.val), None, first.log \o rest.log)

\* lines 103-107: the loop over diff.index
RECURSIVE Converted(_, _, _, _)
Converted(index, diff, currency, end) ==
    IF index = {} THEN Returned(Zero, None, <<>>)
    ELSE AddTerm(Term(currency_conversion_on_date(CHOOSE i \in index : TRUE, currency, end, None),
                      diff[CHOOSE i \in index : TRUE]),
                 Converted(index \ {CHOOSE i \in index : TRUE}, diff, currency, end))

\* lines 100-107, given the two breakdowns
DiffOf(start_bal, end_bal, currency, end) ==
    IF start_bal.kind # "ok" THEN Raised(start_bal.kind, None, <<>>)
    ELSE IF end_bal.kind # "ok" THEN Raised(end_bal.kind, None, <<>>)
    ELSE Converted(DOMAIN Subtract(end_bal.series, start_bal.series),
                   Subtract(end_bal.series, start_bal.series), currency, end)

\* lines 81-107, currency being None or a piecash.Commodity
diff_balance(account, start, end, currency) ==
    DiffOf(balance_by_currency(account, start, NoCommodity),
           balance_by_currency(account, end, NoCommodity),
           TargetCommodity(account, currency), end)

---------------------------------------------------------------------------
(* top_and_other, utils.py lines 13-36.  A table is its column labels and, *)
(* per label, the values of its rows; a series is a table of one row whose *)
(* labels are its index.                                                   *)

RECURSIVE SeqSum(_)
SeqSum(q) == IF q = <<>> THEN 0 ELSE Head(q) + SeqSum(Tail(q))

Range(q) == {q[i] : i \in DOMAIN q}

\* lines 25-30: in_data.sum() per column, or the series itself
Totals(in_data) == [c \in in_data.columns |-> SeqSum(in_data.values[c])]

\* totals.sort_values(ascending=False).index, line 31: an arrangement of the
\* labels by descending total; the sort is not stable, so labels of equal
\* total come in any order
SortedDescending(totals) ==
    {o \in [1..Cardinality(DOMAIN totals) -> DOMAIN totals] :
        /\ \A i, j \in DOMAIN o : i # j => o[i] # o[j]
        /\ \A i, j \in DOMAIN o : i < j => totals[o[i]] >= totals[o[j]]}

\* sorted_col_names[:top_n] and sorted_col_names[top_n:], lines 32-33
Slice(q, from, to) == [i \in 1..(IF to >= from THEN to - from + 1 ELSE 0) |-> q[from + i - 1]]
TopNames(sorted_col_names, top_n) ==
    Slice(sorted_col_names, 1, IF top_n < Len(sorted_col_names) THEN top_n ELSE Len(sorted_col_names))
OtherNames(sorted_col_names, top_n) ==
    Slice(sorted_col_names, top_n + 1, Len(sorted_col_names))

\* in_data[top_col_names], line 34
Columns(in_data, names) ==
    [columns |-> names, values |-> [c \in Range(names) |-> in_data.values[c]]]

RECURSIVE RowTotal(_, _, _)
RowTotal(in_data, names, r) ==
    IF names = <<>> THEN 0
    ELSE in_data.values[Head(names)][r] + RowTotal(in_data, Tail(names), r)

\* in_data[other_col_names].sum(axis=axis), line 35
SumOf(in_data, names) == [r \in 1..in_data.rows |-> RowTotal(in_data, names, r)]

\* top_cols['Other'] = ..., line 35: an existing label is assigned in place,
\* a new one is appended
SetItem(top_cols, label, column) ==
    [columns |-> IF label \in Range(top_cols.columns) THEN top_cols.columns
                 ELSE Append(top_cols.columns, label),
     values |-> [c \in Range(top_cols.columns) \cup {label} |->
                    IF c = label THEN column ELSE top_cols.values[c]]]

\* lines 31-36, given the order the sort produced
top_and_other(in_data, top_n, sorted_col_names) ==
    SetItem(Columns(in_data, TopNames(sorted_col_names, top_n)), "Other",
            SumOf(in_data, OtherNames(sorted_col_names, top_n)))

---------------------------------------------------------------------------
(* Books *)

\* The value of the price recorded for a pair on a date: 0.90, 0.91, ... for
\* USD->EUR, 0.80, ... for USD->GBP, 1.15, ... for GBP->EUR.  Every record of
\* the model has a value of its own and no value is the inverse of another, so
\* that a factor tells which record made it.
PriceBase(c1, c2) ==
    CASE c1 = "USD" /\ c2 = "EUR" -> 90
      [] c1 = "EUR" /\ c2 = "USD" -> 110
      [] c1 = "USD" /\ c2 = "GBP" -> 80
      [] c1 = "GBP" /\ c2 = "USD" -> 126
      [] c1 = "GBP" /\ c2 = "EUR" -> 115
      [] c1 = "EUR" /\ c2 = "GBP" -> 85
      [] OTHER -> 100

PriceValue(c1, c2, d) == Frac(PriceBase(c1, c2) + d, 100)

\* One price per commodity pair and date (prices/seedrs.py lines 17-20 skip a
\* date that already has a price).
PriceRecords(pairs) ==
    {[commodity |-> pr[1], currency |-> pr[2], date |-> d,
      value |-> PriceValue(pr[1], pr[2], d)] : pr \in pairs, d \in Dates}

PriceTables(pairs) == SubsetsUpTo(PriceRecords(pairs), MaxPrices)

\* account.splits of all accounts: a bag of [account, quantity, post_date]
\* (post_date is the split's transaction's), with the number of such splits.
Bag(S) == [sp \in S |-> 1]

AddSplit(b, sp) ==
    [x \in DOMAIN b \cup {sp} |->
        IF x # sp THEN b[x] ELSE IF sp \in DOMAIN b THEN b[sp] + 1 ELSE 1]

RECURSIVE BagsUpTo(_, _)
BagsUpTo(S, k) ==
    IF k = 0 THEN {Bag({})}
    ELSE LET prev == BagsUpTo(S, k - 1)
         IN  prev \cup {AddSplit(b, sp) : b \in prev, sp \in S}

Quantities == {100, -30}

\* The names of accounts 0 (the root), 1, 2, 3
AccountNames == <<<<"R">>, <<"A">>, <<"B">>, <<"C">>>>

SplitRecords(accounts) ==
    {[account |-> a, quantity |-> q, post_date |-> d] :
        a \in accounts, q \in Quantities, d \in Dates}

---------------------------------------------------------------------------
(* prices/ecb_fx.py.  The XML root is whether it has the top-level Cube    *)
(* and, per date of a dated Cube (its time attribute, a well-formed date), *)
(* the currencies that Cube quotes a rate for.                             *)

\* float(attrib['rate']) of the Cube of a currency within the Cube of a date
EurRate(currency, d) == PriceValue("EUR", currency, d)

\* lines 23-36
ecb_fx_rate_from_eur(xml_root, d, currency) ==
    IF currency \in xml_root.cubes[d] THEN Returned(EurRate(currency, d), None, <<>>)
    ELSE Raised("PriceNotFoundError", None, <<>>)

\* line 57, given the rate of from_currency
OneOver(rate) ==
    IF rate.kind # "ok" THEN rate ELSE Returned(FInv(rate.val), None, <<>>)

\* line 59, given the two rates, the one of to_currency being looked up first
Cross(rate_to, rate_from) ==
    IF rate_to.kind # "ok" THEN rate_to
    ELSE IF rate_from.kind # "ok" THEN rate_from
    ELSE Returned(FMul(rate_to.val, FInv(rate_from.val)), None, <<>>)

\* lines 39-59
ecb_fx_rate(xml_root, d, to_currency, from_currency) ==
    IF to_currency = from_currency THEN Returned(One, None, <<>>)
    ELSE IF from_currency = "EUR" THEN ecb_fx_rate_from_eur(xml_root, d, to_currency)
    ELSE IF to_currency = "EUR" THEN OneOver(ecb_fx_rate_from_eur(xml_root, d, from_currency))
    ELSE Cross(ecb_fx_rate_from_eur(xml_root, d, to_currency),
               ecb_fx_rate_from_eur(xml_root, d, from_currency))

\* line 85: the dated Cubes the loop computes a rate for
InRange(xml_root, start_date, end_date, exclude_dates) ==
    {d \in DOMAIN xml_root.cubes : start_date < d /\ d <= end_date /\ d \notin exclude_dates}

\* lines 62-90: the rates found, and the dates warned about
ecb_fx_rate_range(xml_root, start_date, end_date, to_currency, from_currency, exclude_dates) ==
    IF ~xml_root.top_cube
    THEN [kind |-> "BadDataError", rates |-> EmptySeries, warned |-> {}]
    ELSE [kind |-> "ok",
          rates |-> [d \in {x \in InRange(xml_root, start_date, end_date, exclude_dates) :
                              ecb_fx_rate(xml_root, x, to_currency, from_currency).kind = "ok"}
                     |-> ecb_fx_rate(xml_root, d, to_currency, from_currency).val],
          warned |-> {x \in InRange(xml_root, start_date, end_date, exclude_dates) :
                        ecb_fx_rate(xml_root, x, to_currency, from_currency).kind # "ok"}]

---------------------------------------------------------------------------
(* balances, analysis.py lines 53-70 *)

\* line 69, the right-hand side: the balance of the account found, with the
\* defaults recurse = True and natural_sign = True
BalanceOfFound(acct, at_date, currency) ==
    IF acct.kind # "ok" THEN Raised(acct.kind, None, <<>>)
    ELSE get_historical_balance(acct.account, TRUE, currency, TRUE, at_date, None)

\* balances[acct.name] = ..., line 69: the entry of that name is set
SetBalance(balances, name, balance) ==
    IF balance.kind # "ok" THEN [kind |-> balance.kind, series |-> EmptySeries]
    ELSE [kind |-> "ok",
          series |-> [k \in DOMAIN balances.series \cup {name} |->
                         IF k = name THEN balance.val ELSE balances.series[k]]]

\* lines 67-69, over the names still to come
RECURSIVE BalancesFrom(_, _, _, _)
BalancesFrom(so_far, account_names, at_date, currency) ==
    IF account_names = <<>> \/ so_far.kind # "ok" THEN so_far
    ELSE BalancesFrom(SetBalance(so_far,
                                 acct_name[get_account(Head(account_names)).account],
                                 BalanceOfFound(get_account(Head(account_names)),
                                                at_date, currency)),
                      Tail(account_names), at_date, currency)

\* lines 53-70, currency being None or a piecash.Commodity
balances(account_names, at_date, currency) ==
    BalancesFrom([kind |-> "ok", series |-> EmptySeries], account_names, at_date, currency)

---------------------------------------------------------------------------
(* Actions.  A call is made when no call is pending; Return hands its       *)
(* outcome to the caller.                                                  *)

NoCall == [op |-> "none"]
NoResult == [kind |-> "none", val |-> Zero, log |-> <<>>]
Outcome(r) == [kind |-> r.kind, val |-> r.val, log |-> r.log]

\* A caller converts between two commodities, passing its own cache object
\* (kept between calls) or no cache.
CallConversion(commodity, currency, on_date, with_cache) ==
    LET passed == IF with_cache THEN cache ELSE None
        r == currency_conversion_on_date(commodity, currency, on_date, passed)
    IN  /\ call = NoCall
        /\ Cardinality(r.cache.m) <= MaxCache
        /\ call' = [op |-> "currency_conversion_on_date", commodity |-> commodity,
                    currency |-> currency, on_date |-> on_date, cache_in |-> passed]
        /\ result' = Outcome(r)
        /\ cache' = IF with_cache THEN r.cache ELSE cache
        /\ UNCHANGED book

\* A caller asks for a balance, passing its own cache object or no cache.
CallBalance(account, recurse, commodity, natural_sign, at_date, with_cache) ==
    LET passed == IF with_cache THEN cache ELSE None
        r == get_historical_balance(account, recurse, commodity, natural_sign,
                                    at_date, passed)
    IN  /\ call = NoCall
        /\ Cardinality(r.cache.m) <= MaxCache
        /\ call' = [op |-> "get_historical_balance", account |-> account,
                    recurse |-> recurse, commodity |-> commodity,
                    natural_sign |-> natural_sign, at_date |-> at_date,
                    cache_in |-> passed]
        /\ result' = Outcome(r)
        /\ cache' = IF with_cache THEN r.cache ELSE cache
        /\ UNCHANGED book

CallAggBalance(account_names, currency, at_date) ==
    /\ call = NoCall
    /\ call' = [op |-> "agg_balance", account_names |-> account_names,
                currency |-> currency, at_date |-> at_date]
    /\ result' = Outcome(agg_balance(account_names, currency, at_date))
    /\ UNCHANGED <<book, cache>>

CallAggBalanceOverTime(account_names, start, end, step, currency) ==
    /\ call = NoCall
    /\ call' = [op |-> "agg_balance_over_time", account_names |-> account_names,
                start |-> start, end |-> end, step |-> step, currency |-> currency]
    /\ result' = agg_balance_over_time(account_names, start, end, step, currency)
    /\ UNCHANGED <<book, cache>>

CallBalanceByCurrency(account, at_date, currency) ==
    /\ call = NoCall
    /\ call' = [op |-> "balance_by_currency", account |-> account,
                at_date |-> at_date, currency |-> currency]
    /\ result' = balance_by_currency(account, at_date, currency)
    /\ UNCHANGED <<book, cache>>

CallDiffBalance(account, start, end, currency) ==
    /\ call = NoCall
    /\ call' = [op |-> "diff_balance", account |-> account,
                start |-> start, end |-> end, currency |-> currency]
    /\ result' = Outcome(diff_balance(account, start, end, currency))
    /\ UNCHANGED <<book, cache>>

CallTopAndOther(in_data, top_n) ==
    /\ call = NoCall
    /\ call' = [op |-> "top_and_other", in_data |-> in_data, top_n |-> top_n]
    /\ \E sorted_col_names \in SortedDescending(Totals(in_data)) :
          result' = [kind |-> "ok", data |-> top_and_other(in_data, top_n, sorted_col_names)]
    /\ UNCHANGED <<book, cache>>

CallEcbFxRateRange(xml_root, start_date, end_date, to_currency, from_currency, exclude_dates) ==
    /\ call = NoCall
    /\ call' = [op |-> "ecb_fx_rate_range", xml_root |-> xml_root,
                start_date |-> start_date, end_date |-> end_date,
                to_currency |-> to_currency, from_currency |-> from_currency,
                exclude_dates |-> exclude_dates]
    /\ result' = ecb_fx_rate_range(xml_root, start_date, end_date, to_currency,
                                   from_currency, exclude_dates)
    /\ UNCHANGED <<book, cache>>

CallBalances(account_names, at_date, currency) ==
    /\ call = NoCall
    /\ call' = [op |-> "balances", account_names |-> account_names,
                at_date |-> at_date, currency |-> currency]
    /\ result' = balances(account_names, at_date, currency)
    /\ UNCHANGED <<book, cache>>

Return ==
    /\ call # NoCall
    /\ call' = NoCall
    /\ result' = NoResult
    /\ UNCHANGED <<book, cache>>

\* The caller drops its cache and starts with a new empty one.
NewCache ==
    /\ call = NoCall
    /\ cache # EmptyDict
    /\ cache' = EmptyDict
    /\ UNCHANGED <<book, call, result>>

---------------------------------------------------------------------------
(* SpecConv: the conversion engine.  Price tables over USD and EUR; a book *)
(* of one USD account under an EUR root.                                   *)

InitConv ==
    /\ parent = [a \in 0..1 |-> Root]
    /\ acct_name = [a \in 0..1 |-> AccountNames[a + 1]]
    /\ acct_commodity = [a \in 0..1 |-> IF a = Root THEN "EUR" ELSE "USD"]
    /\ sign = [a \in 0..1 |-> 1]
    /\ splits = Bag({[account |-> 1, quantity |-> 100, post_date |-> 0]})
    /\ prices \in PriceTables({<<"USD", "EUR">>, <<"EUR", "USD">>})
    /\ cache = EmptyDict
    /\ call = NoCall
    /\ result = NoResult

NextConv ==
    \/ \E c1 \in Commodities, c2 \in Commodities, d \in Dates, w \in BOOLEAN :
           CallConversion(c1, c2, d, w)
    \/ \E a \in 0..1, c \in {NoCommodity, "USD", "EUR"}, d \in Dates \cup {NoDate},
          w \in BOOLEAN :
           CallBalance(a, TRUE, c, TRUE, d, w)
    \/ Return
    \/ NewCache

SpecConv == InitConv /\ [][NextConv]_vars
---------------------------------------------------------------------------
(* SpecOwn: balances in the account's own currency.  A root with account 1 *)
(* and its child 2, all in EUR, any signs, any splits, no prices.          *)

InitOwn ==
    /\ parent = [a \in 0..2 |-> IF a = 2 THEN 1 ELSE Root]
    /\ acct_name = [a \in 0..2 |-> AccountNames[a + 1]]
    /\ acct_commodity = [a \in 0..2 |-> "EUR"]
    /\ sign \in [0..2 -> {1, -1}]
    /\ sign[Root] = 1
    /\ splits \in BagsUpTo(SplitRecords(1..2), MaxSplits)
    /\ prices = {}
    /\ cache = EmptyDict
    /\ call = NoCall
    /\ result = NoResult

NextOwn ==
    \/ \E a \in 0..2, r \in BOOLEAN, c \in {NoCommodity, "EUR"}, n \in BOOLEAN,
          d \in Dates \cup {NoDate} :
           CallBalance(a, r, c, n, d, FALSE)
    \/ Return

SpecOwn == InitOwn /\ [][NextOwn]_vars

---------------------------------------------------------------------------
(* SpecHop: conversion of a balance.  A chain root (EUR) - account 1 (any  *)
(* commodity) - account 2 (USD), one split each, any price table.          *)

AllPairs == {pr \in Commodities \X Commodities : pr[1] # pr[2]}

InitHop ==
    /\ parent = [a \in 0..2 |-> IF a = 2 THEN 1 ELSE Root]
    /\ acct_name = [a \in 0..2 |-> AccountNames[a + 1]]
    /\ acct_commodity \in [0..2 -> Commodities]
    /\ acct_commodity[Root] = "EUR" /\ acct_commodity[2] = "USD"
    /\ sign = [a \in 0..2 |-> 1]
    /\ splits = Bag({[account |-> 1, quantity |-> -30, post_date |-> 1],
                     [account |-> 2, quantity |-> 100, post_date |-> 0]})
    /\ prices \in PriceTables(AllPairs)
    /\ cache = EmptyDict
    /\ call = NoCall
    /\ result = NoResult

NextHop ==
    \/ \E a \in 1..2, r \in BOOLEAN, c \in Commodities, d \in Dates \cup {NoDate} :
           CallBalance(a, r, c, FALSE, d, FALSE)
    \/ Return

SpecHop == InitHop /\ [][NextHop]_vars

---------------------------------------------------------------------------
(* SpecTree: recursion over the account tree.  Account 1 under the root,   *)
(* account 2 under 1, account 3 under 1 or 2; accounts in USD or EUR with  *)
(* any signs, one split each, USD -> EUR prices.                           *)

InitTree ==
    /\ parent \in [0..3 -> 0..2]
    /\ parent[Root] = Root /\ parent[1] = Root /\ parent[2] = 1 /\ parent[3] \in 1..2
    /\ acct_name = [a \in 0..3 |-> AccountNames[a + 1]]
    /\ acct_commodity \in [0..3 -> {"USD", "EUR"}]
    /\ acct_commodity[Root] = "EUR"
    /\ sign \in [0..3 -> {1, -1}]
    /\ sign[Root] = 1 /\ sign[3] = 1
    /\ splits = Bag({[account |-> 1, quantity |-> 100, post_date |-> 0],
                     [account |-> 2, quantity |-> -30, post_date |-> 1],
                     [account |-> 3, quantity |-> 7, post_date |-> 1]})
    /\ prices \in PriceTables({<<"USD", "EUR">>})
    /\ cache = EmptyDict
    /\ call = NoCall
    /\ result = NoResult

NextTree ==
    \/ \E a \in 1..3, c \in {NoCommodity, "USD", "EUR"}, n \in BOOLEAN,
          d \in Dates \cup {NoDate} :
           CallBalance(a, TRUE, c, n, d, FALSE)
    \/ Return

SpecTree == InitTree /\ [][NextTree]_vars

---------------------------------------------------------------------------
(* SpecAgg: the aggregation methods.  Account A (USD or EUR) under an EUR  *)
(* root and its child B (USD), USD -> EUR prices; lists of the full names  *)
(* "A", "A:B" and of "X", which names no account.                          *)

FullNames == {<<"A">>, <<"A", ":", "B">>, <<"X">>}

RECURSIVE ListsUpTo(_, _)
ListsUpTo(S, k) ==
    IF k = 0 THEN {<<>>}
    ELSE LET prev == ListsUpTo(S, k - 1)
         IN  prev \cup {Append(l, x) : l \in prev, x \in S}

InitAgg ==
    /\ parent = [a \in 0..2 |-> IF a = 2 THEN 1 ELSE Root]
    /\ acct_name = [a \in 0..2 |-> AccountNames[a + 1]]
    /\ acct_commodity \in [0..2 -> {"USD", "EUR"}]
    /\ acct_commodity[Root] = "EUR" /\ acct_commodity[2] = "USD"
    /\ sign = [a \in 0..2 |-> 1]
    /\ splits = Bag({[account |-> 1, quantity |-> 100, post_date |-> 0],
                     [account |-> 2, quantity |-> -30, post_date |-> 1]})
    /\ prices \in PriceTables({<<"USD", "EUR">>})
    /\ cache = EmptyDict
    /\ call = NoCall
    /\ result = NoResult

NextAgg ==
    \/ \E l \in ListsUpTo(FullNames, MaxNames), c \in {"USD", "EUR"},
          d \in Dates \cup {NoDate} :
           CallAggBalance(l, c, d)
    \/ \E l \in ListsUpTo(FullNames, MaxNames), c \in {"USD", "EUR"},
          s \in Dates, e \in 0..(MaxDate + 1), st \in 1..MaxStep :
           CallAggBalanceOverTime(l, s, e, st, c)
    \/ Return

SpecAgg == InitAgg /\ [][NextAgg]_vars

---------------------------------------------------------------------------
(* SpecCur: breakdowns by currency.  Account 1 (USD or EUR) under an EUR   *)
(* root, with children 2 (USD) and 3 (EUR); accounts 1 and 2 of either     *)
(* sign; USD -> EUR prices.                                                *)

InitCur ==
    /\ parent = [a \in 0..3 |-> IF a \in 2..3 THEN 1 ELSE Root]
    /\ acct_name = [a \in 0..3 |-> AccountNames[a + 1]]
    /\ acct_commodity \in [0..3 -> {"USD", "EUR"}]
    /\ acct_commodity[Root] = "EUR" /\ acct_commodity[2] = "USD"
    /\ acct_commodity[3] = "EUR"
    /\ sign \in [0..3 -> {1, -1}]
    /\ sign[Root] = 1 /\ sign[3] = 1
    /\ splits = Bag({[account |-> 1, quantity |-> 100, post_date |-> 0],
                     [account |-> 2, quantity |-> 50, post_date |-> 0],
                     [account |-> 2, quantity |-> -30, post_date |-> 1],
                     [account |-> 3, quantity |-> 7, post_date |-> 2]})
    /\ prices \in PriceTables({<<"USD", "EUR">>})
    /\ cache = EmptyDict
    /\ call = NoCall
    /\ result = NoResult

NextCur ==
    \/ \E a \in 0..3, d \in Dates \cup {NoDate}, c \in {NoCommodity, "USD", "EUR"} :
           CallBalanceByCurrency(a, d, c)
    \/ \E a \in 0..3, s \in Dates, e \in Dates, c \in {NoCommodity, "USD", "EUR"} :
           CallDiffBalance(a, s, e, c)
    \/ Return

SpecCur == InitCur /\ [][NextCur]_vars

---------------------------------------------------------------------------
(* SpecTop: the top-N reducer, over series and tables of up to MaxCats     *)
(* categories and MaxRows rows.                                            *)

Labels == {"a", "b", "c", "Other"}
CellValues == {1, 3}

\* series (one row) and tables with the given labels
InData(labels) ==
    {[frame |-> f, rows |-> n, columns |-> labels, values |-> v] :
        f \in BOOLEAN, n \in 1..MaxRows, v \in [labels -> [1..MaxRows -> CellValues]]}

Reduced(d) ==
    [frame |-> d.frame, rows |-> IF d.frame THEN d.rows ELSE 1, columns |-> d.columns,
     values |-> [c \in d.columns |-> Slice(d.values[c], 1, IF d.frame THEN d.rows ELSE 1)]]

Tables ==
    UNION {{Reduced(d) : d \in InData(ls)} : ls \in SubsetsUpTo(Labels, MaxCats)}

\* a book without accounts other than the root
InitEmpty ==
    /\ parent = [a \in {Root} |-> Root]
    /\ acct_name = [a \in {Root} |-> AccountNames[1]]
    /\ acct_commodity = [a \in {Root} |-> "EUR"]
    /\ sign = [a \in {Root} |-> 1]
    /\ splits = Bag({})
    /\ prices = {}
    /\ cache = EmptyDict
    /\ call = NoCall
    /\ result = NoResult

NextTop ==
    \/ \E in_data \in Tables, top_n \in 0..MaxTop : CallTopAndOther(in_data, top_n)
    \/ Return

SpecTop == InitEmpty /\ [][NextTop]_vars

---------------------------------------------------------------------------
(* SpecSym: the conversion engine over symmetric price tables: every       *)
(* USD -> EUR price comes with the EUR -> USD price of the same date and   *)
(* the reciprocal value.                                                   *)

Reciprocal(p) ==
    [commodity |-> p.currency, currency |-> p.commodity, date |-> p.date,
     value |-> FInv(p.value)]

InitSym ==
    /\ parent = [a \in 0..1 |-> Root]
    /\ acct_name = [a \in 0..1 |-> AccountNames[a + 1]]
    /\ acct_commodity = [a \in 0..1 |-> IF a = Root THEN "EUR" ELSE "USD"]
    /\ sign = [a \in 0..1 |-> 1]
    /\ splits = Bag({[account |-> 1, quantity |-> 100, post_date |-> 0]})
    /\ \E forward \in PriceTables({<<"USD", "EUR">>}) :
          prices = forward \cup {Reciprocal(p) : p \in forward}
    /\ cache = EmptyDict
    /\ call = NoCall
    /\ result = NoResult

NextSym ==
    \/ \E c1 \in Commodities, c2 \in Commodities, d \in Dates, w \in BOOLEAN :
           CallConversion(c1, c2, d, w)
    \/ Return
    \/ NewCache

SpecSym == InitSym /\ [][NextSym]_vars

---------------------------------------------------------------------------
(* SpecEcb: the ECB rate file.  Files with or without the top-level Cube,  *)
(* a dated Cube for any of the dates, each quoting USD, or USD and GBP.    *)

XmlRoots ==
    {[top_cube |-> t, cubes |-> c] :
        t \in BOOLEAN,
        c \in UNION {[D -> {{"USD"}, {"USD", "GBP"}}] : D \in SUBSET Dates}}

NextEcb ==
    \/ \E x \in XmlRoots, s \in Dates, e \in Dates, to \in Commodities,
          from \in {"EUR", "GBP"}, ex \in SubsetsUpTo(Dates, 1) :
           CallEcbFxRateRange(x, s, e, to, from, ex)
    \/ Return

SpecEcb == InitEmpty /\ [][NextEcb]_vars

---------------------------------------------------------------------------
(* SpecBal: balances of named accounts.  Accounts A and B under the root,  *)
(* each with a child named C; lists of the full names "A", "A:C", "B:C"    *)
(* and of "X", which names no account.                                     *)

NamesWithTwoCs == <<<<"R">>, <<"A">>, <<"B">>, <<"C">>, <<"C">>>>
PathNames == {<<"A">>, <<"A", ":", "C">>, <<"B", ":", "C">>, <<"X">>}

InitBal ==
    /\ parent = [a \in 0..4 |-> IF a \in 3..4 THEN a - 2 ELSE Root]
    /\ acct_name = [a \in 0..4 |-> NamesWithTwoCs[a + 1]]
    /\ acct_commodity \in [0..4 -> {"USD", "EUR"}]
    /\ \A a \in 0..3 : acct_commodity[a] = "EUR"
    /\ sign \in [0..4 -> {1, -1}]
    /\ \A a \in 0..4 : a # 2 => sign[a] = 1
    /\ splits = Bag({[account |-> 1, quantity |-> 7, post_date |-> 1],
                     [account |-> 3, quantity |-> 100, post_date |-> 0],
                     [account |-> 4, quantity |-> -30, post_date |-> 1]})
    /\ prices \in PriceTables({<<"USD", "EUR">>})
    /\ cache = EmptyDict
    /\ call = NoCall
    /\ result = NoResult

NextBal ==
    \/ \E l \in ListsUpTo(PathNames, MaxNames), d \in Dates \cup {NoDate},
          c \in {NoCommodity, "EUR"} :
           CallBalances(l, d, c)
    \/ Return

SpecBal == InitBal /\ [][NextBal]_vars

---------------------------------------------------------------------------
(* Properties of currency_conversion_on_date, checked under SpecConv       *)

ConvCall == call.op = "currency_conversion_on_date"
BalanceCall == call.op = "get_historical_balance"

ForwardPrices == {p \in prices : p.commodity = call.commodity /\ p.currency = call.currency}
ReversePrices == {p \in prices : p.commodity = call.currency /\ p.currency = call.commodity}
Distance(p) == Abs(p.date - call.on_date)
Nearest(S) == {p \in S : \A q \in S : Distance(p) <= Distance(q)}
FactorOf(p) == IF p \in ForwardPrices THEN p.value ELSE FInv(p.value)

\* C1: between two different commodities with a recorded price in either
\* direction, the conversion returns the value of a record at minimal date
\* distance among the forward and reverse records (the reverse value inverted),
\* and a forward record's value when the closest forward and the closest
\* reverse record are equally distant.
C1_ClosestRecordUsed ==
    (ConvCall /\ call.commodity # call.currency /\ ForwardPrices \cup ReversePrices # {})
    => /\ result.kind = "ok"
       /\ \E p \in Nearest(ForwardPrices \cup ReversePrices) : result.val = FactorOf(p)
       /\ (Nearest(ForwardPrices \cup ReversePrices) \cap ForwardPrices # {})
          => \E p \in Nearest(ForwardPrices) : result.val = p.value

\* a forward and a reverse record at the same distance from the date asked for
C1_Witness ==
    /\ ConvCall /\ call.commodity # call.currency
    /\ \E p \in ForwardPrices, q \in ReversePrices :
          /\ Distance(p) = Distance(q)
          /\ Distance(p) > 0
          /\ p \in Nearest(ForwardPrices \cup ReversePrices)
          /\ result.kind = "ok" /\ result.val = p.value

\* C2: with no recorded price in either direction between two different
\* commodities the conversion raises PriceNotFoundError and leaves the cache
\* as it was; a returned factor between different commodities is always the
\* value, or the inverse of the value, of a recorded price.
C2_NoPriceRaises ==
    /\ (ConvCall /\ call.commodity # call.currency /\ ForwardPrices \cup ReversePrices = {})
       => /\ result.kind = "PriceNotFoundError"
          /\ call.cache_in.some => cache = call.cache_in
    /\ (ConvCall /\ call.commodity # call.currency /\ result.kind = "ok")
       => \E p \in ForwardPrices \cup ReversePrices : result.val = FactorOf(p)

\* a failed conversion that was passed a cache holding an entry
C2_Witness ==
    /\ ConvCall /\ call.commodity # call.currency
    /\ ForwardPrices \cup ReversePrices = {}
    /\ prices # {}
    /\ call.cache_in.some /\ call.cache_in.m # {}
    /\ result.kind = "PriceNotFoundError"

\* C3: converting a commodity to itself returns exactly 1, searches no price
\* and leaves the cache as it was, whatever prices are recorded; a balance
\* asked for in the account's own commodity performs no price search for the
\* account and adds no cache entry converting from the account's commodity.
C3_SameCommodityIsOne ==
    /\ (ConvCall /\ call.commodity = call.currency)
       => /\ result.kind = "ok" /\ result.val = One /\ result.log = <<>>
          /\ call.cache_in.some => cache = call.cache_in
    /\ (BalanceCall /\ TargetCommodity(call.account, call.commodity) = acct_commodity[call.account])
       => /\ \A i \in DOMAIN result.log : result.log[i][1] # acct_commodity[call.account]
          /\ call.cache_in.some
             => \A e \in cache.m \ call.cache_in.m : e.pair[1] # acct_commodity[call.account]
          /\ (call.cache_in.some /\ (~call.recurse \/ Children(call.account) = {}))
             => cache = call.cache_in /\ result.log = <<>>

\* a commodity without any price converted to itself, with a cache holding an
\* entry
C3_Witness ==
    /\ ConvCall /\ call.commodity = call.currency
    /\ \A p \in prices : p.commodity # call.commodity /\ p.currency # call.commodity
    /\ call.cache_in.some /\ call.cache_in.m # {}
    /\ result.val = One /\ cache = call.cache_in

\* C4: a conversion that returns with a cache passed leaves its factor in the
\* cache under (from, to) / on_date, and the same call made again with that
\* cache returns the same factor without a price search.
C4_SecondCallHitsCache ==
    (ConvCall /\ call.cache_in.some /\ result.kind = "ok")
    => /\ call.commodity # call.currency
          => /\ CacheHas(cache, <<call.commodity, call.currency>>, call.on_date)
             /\ CacheGet(cache, <<call.commodity, call.currency>>, call.on_date) = result.val
       /\ LET again == currency_conversion_on_date(call.commodity, call.currency,
                                                   call.on_date, cache)
          IN  again.kind = "ok" /\ again.val = result.val /\ again.log = <<>>
              /\ again.cache = cache

\* a call answered from the entry an earlier call stored
C4_Witness ==
    /\ ConvCall /\ call.cache_in.some /\ call.commodity # call.currency
    /\ CacheHas(call.cache_in, <<call.commodity, call.currency>>, call.on_date)
    /\ result.kind = "ok" /\ result.log = <<>>
    /\ result.val = CacheGet(call.cache_in, <<call.commodity, call.currency>>, call.on_date)

---------------------------------------------------------------------------
(* Properties of get_historical_balance, checked under SpecOwn             *)

\* what is posted to an account on one day
PostedOn(a, d) ==
    LET n(q) == IF [account |-> a, quantity |-> q, post_date |-> d] \in DOMAIN splits
                THEN splits[[account |-> a, quantity |-> q, post_date |-> d]] ELSE 0
    IN  100 * n(100) - 30 * n(-30)

\* the running balance of an account: yesterday's plus what is posted today
Running[a \in 0..2, d \in -1..MaxDate] ==
    IF d = -1 THEN 0 ELSE Running[a, d - 1] + PostedOn(a, d)

OwnCall ==
    /\ BalanceCall
    /\ TargetCommodity(call.account, call.commodity) = acct_commodity[call.account]
    /\ ~call.recurse \/ Children(call.account) = {}

\* C5: the own balance of an account in its own commodity is the sum of the
\* quantities of its splits posted on or before at_date (of all its splits
\* without at_date), times the account's sign when natural_sign is set; it is
\* 0 without splits.
C5_OwnBalanceUpToDate ==
    OwnCall
    => /\ result.kind = "ok"
       /\ result.val =
            FromInt((IF call.natural_sign THEN sign[call.account] ELSE 1)
                    * Running[call.account,
                              IF call.at_date = NoDate THEN MaxDate ELSE call.at_date])
       /\ (\A sp \in DOMAIN splits : sp.account # call.account) => result.val = Zero

\* one split of 100 posted on at_date and one posted later: the balance of the
\* childless account of sign +1 is 100
C5_Witness ==
    /\ OwnCall /\ call.account = 2 /\ sign[2] = 1 /\ call.natural_sign
    /\ call.at_date # NoDate
    /\ \E sp \in DOMAIN splits :
          sp.account = 2 /\ sp.post_date = call.at_date /\ sp.quantity = 100
    /\ \E sp \in DOMAIN splits : sp.account = 2 /\ sp.post_date > call.at_date
    /\ result.kind = "ok" /\ result.val = FromInt(100)

---------------------------------------------------------------------------
(* Properties of get_historical_balance, checked under SpecHop             *)

\* converting between two commodities at the date of the call, without a cache
Rate(from, to) == currency_conversion_on_date(from, to, call.at_date, None)

Target == TargetCommodity(call.account, call.commodity)
ParentCommodity(a) == acct_commodity[parent[a]]

\* account a is x or below x
RECURSIVE Under(_, _)
Under(a, x) == a = x \/ (a # Root /\ Under(parent[a], x))

\* the accounts a call visits
Visited ==
    IF call.recurse THEN {a \in DOMAIN parent : Under(a, call.account)}
    ELSE {call.account}

TwoHops(a) ==
    /\ Rate(acct_commodity[a], ParentCommodity(a)).kind = "ok"
    /\ Rate(ParentCommodity(a), Target).kind = "ok"

CanBePriced(a) ==
    \/ acct_commodity[a] = Target
    \/ Rate(acct_commodity[a], Target).kind = "ok"
    \/ TwoHops(a)

\* the factor the claim gives an account that can be priced
ClaimedFactor(a) ==
    IF acct_commodity[a] = Target THEN One
    ELSE IF Rate(acct_commodity[a], Target).kind = "ok"
    THEN Rate(acct_commodity[a], Target).val
    ELSE FMul(Rate(acct_commodity[a], ParentCommodity(a)).val,
              Rate(ParentCommodity(a), Target).val)

DatedCall == BalanceCall /\ call.at_date # NoDate /\ call.account # Root

\* C6: at a date, an account in another commodity than the target is
\* converted with the direct factor when there is one, else with the product
\* of the factors account commodity -> parent's commodity -> target; when
\* neither exists for the account or for an account its recursion visits, the
\* call raises PriceNotFoundError.
C6_DirectElseViaParent ==
    DatedCall
    => /\ (\E a \in Visited : ~CanBePriced(a)) => result.kind = "PriceNotFoundError"
       /\ (Visited = {call.account} /\ CanBePriced(call.account))
          => /\ result.kind = "ok"
             /\ result.val = FMul(FromInt(Running[call.account, call.at_date]),
                                  ClaimedFactor(call.account))

\* USD -> GBP at 0.80 and GBP -> EUR at 1.15, nothing between USD and EUR:
\* 100 USD under a GBP parent are 92 EUR
C6_Witness ==
    /\ DatedCall /\ call.account = 2 /\ ~call.recurse /\ Target = "EUR"
    /\ acct_commodity[1] = "GBP"
    /\ Rate("USD", "EUR").kind = "PriceNotFoundError"
    /\ Rate("USD", "GBP").val = Frac(80, 100)
    /\ Rate("GBP", "EUR").val = Frac(115, 100)
    /\ result.kind = "ok" /\ result.val = FromInt(92)

---------------------------------------------------------------------------
(* Properties of get_historical_balance, checked under SpecTree            *)

\* the calls the recursive call is compared with
NonRecursive ==
    get_historical_balance(call.account, FALSE, call.commodity, call.natural_sign,
                           call.at_date, None)
OfChild(k) == get_historical_balance(k, TRUE, Target, FALSE, call.at_date, None)

RECURSIVE SumOfChildren(_)
SumOfChildren(ks) ==
    IF ks = {} THEN Zero
    ELSE LET k == CHOOSE x \in ks : TRUE
         IN  FAdd(OfChild(k).val, SumOfChildren(ks \ {k}))

RecursiveCall == BalanceCall /\ call.recurse
PartsReturn ==
    /\ NonRecursive.kind = "ok"
    /\ \A k \in Children(call.account) : OfChild(k).kind = "ok"

\* C7 as claimed: the recursive balance is the non-recursive balance plus the
\* children's recursive balances taken with natural_sign = False, also with
\* natural_sign = True on the account itself.
C7_AsClaimed ==
    (RecursiveCall /\ call.commodity # NoCommodity /\ PartsReturn)
    => /\ result.kind = "ok"
       /\ result.val = FAdd(NonRecursive.val, SumOfChildren(Children(call.account)))

\* C7, amended: the recursive balance is the non-recursive balance plus the
\* children's recursive balances (natural_sign = False, in the account's
\* target commodity), the children's sum multiplied by the account's sign when
\* natural_sign is set on the account; it raises exactly when the
\* non-recursive call or a child's call raises.
C7_RecursionAddsSignedChildren ==
    RecursiveCall
    => /\ PartsReturn
          => /\ result.kind = "ok"
             /\ result.val =
                  FAdd(NonRecursive.val,
                       FMul(FromInt(IF call.natural_sign THEN sign[call.account] ELSE 1),
                            SumOfChildren(Children(call.account))))
       /\ ~PartsReturn => result.kind # "ok"

\* an account of sign -1 with a child in another commodity whose balance is
\* converted
C7_Witness ==
    /\ RecursiveCall /\ call.natural_sign /\ sign[call.account] = -1
    /\ PartsReturn /\ result.kind = "ok"
    /\ \E k \in Children(call.account) :
          /\ acct_commodity[k] # Target
          /\ OfChild(k).val # Zero
    /\ result.val # FAdd(NonRecursive.val, SumOfChildren(Children(call.account)))

---------------------------------------------------------------------------
(* Properties of agg_balance and agg_balance_over_time, under SpecAgg      *)

AggCall == call.op = "agg_balance"
OverTimeCall == call.op = "agg_balance_over_time"

\* Every name of the list names an account of the book
AllResolvable(names) ==
    \A i \in 1..Len(names) : get_account(names[i]).kind = "ok"

\* The balance of one named account in the currency, natural_sign = False
NamedBalance(full_name, currency, d) ==
    get_historical_balance(get_account(full_name).account, TRUE, currency, FALSE, d, None)

AllPriced(names, currency, d) ==
    \A i \in 1..Len(names) : NamedBalance(names[i], currency, d).kind = "ok"

RECURSIVE SumOfNamed(_, _, _)
SumOfNamed(names, currency, d) ==
    IF names = <<>> THEN Zero
    ELSE FAdd(NamedBalance(Head(names), currency, d).val,
              SumOfNamed(Tail(names), currency, d))

\* C8: agg_balance over a non-empty list of resolvable accounts whose
\* balances can all be priced completes and returns the sum of their
\* get_historical_balance(account, commodity=currency, at_date=at_date,
\* natural_sign=False).
C8_SumOfBalances ==
    (/\ AggCall
     /\ call.account_names # <<>>
     /\ AllResolvable(call.account_names)
     /\ AllPriced(call.account_names, call.currency, call.at_date))
    => /\ result.kind = "ok"
       /\ result.val = SumOfNamed(call.account_names, call.currency, call.at_date)

\* The dates start + k*step (k = 0, 1, 2, ...) strictly before end
ClaimedDates == {d \in call.start..(call.end - 1) : (d - call.start) % call.step = 0}

\* C9: agg_balance_over_time with step > 0 returns a series keyed by exactly
\* the dates start + k*step strictly before end, in strictly increasing
\* order, each value being the aggregated balance of the accounts at that
\* date.
C9_SeriesOverHalfOpenRange ==
    (/\ OverTimeCall
     /\ call.step > 0
     /\ AllResolvable(call.account_names)
     /\ \A d \in ClaimedDates : AllPriced(call.account_names, call.currency, d))
    => /\ result.kind = "ok"
       /\ {result.series[i][1] : i \in 1..Len(result.series)} = ClaimedDates
       /\ \A i \in 1..Len(result.series) :
            /\ i > 1 => result.series[i - 1][1] < result.series[i][1]
            /\ result.series[i][2] =
                 SumOfNamed(call.account_names, call.currency, result.series[i][1])

\* C10: when some account of the list cannot be priced at some date of the
\* sequence, agg_balance_over_time fails with PriceNotFoundError and returns
\* no series.
C10_PriceNotFoundPropagates ==
    (/\ OverTimeCall
     /\ AllResolvable(call.account_names)
     /\ \E d \in ClaimedDates : \E i \in 1..Len(call.account_names) :
          NamedBalance(call.account_names[i], call.currency, d).kind = "PriceNotFoundError")
    => result.kind = "PriceNotFoundError"

---------------------------------------------------------------------------
(* Properties of diff_balance and balance_by_currency, under SpecCur       *)

DiffCall == call.op = "diff_balance"
ByCurrencyCall == call.op = "balance_by_currency"

\* the breakdowns of the account at the two dates, and the native currencies
\* occurring in either
AtStart == balance_by_currency(call.account, call.start, NoCommodity).series
AtEnd == balance_by_currency(call.account, call.end, NoCommodity).series
Native == DOMAIN AtStart \cup DOMAIN AtEnd

\* the rate of a native currency into the currency of the call, as of end
RateAtEnd(c) ==
    currency_conversion_on_date(c, TargetCommodity(call.account, call.currency),
                                call.end, None)

RECURSIVE ClaimedDiff(_)
ClaimedDiff(cs) ==
    IF cs = {} THEN Zero
    ELSE LET c == CHOOSE x \in cs : TRUE
         IN  FAdd(FMul(RateAtEnd(c).val,
                       FAdd(ValueAt(AtEnd, c), FMul(FromInt(-1), ValueAt(AtStart, c)))),
                  ClaimedDiff(cs \ {c}))

\* C11: diff_balance is the sum, over the native currencies occurring in the
\* breakdown by currency at start or at end, of the rate resolved for the
\* date end times (entry at end minus entry at start, a missing entry being
\* 0); every price search it makes is for the date end, and it raises
\* PriceNotFoundError when one of these rates cannot be resolved.
C11_DiffAtEndRate ==
    DiffCall
    => /\ (\A c \in Native : RateAtEnd(c).kind = "ok")
          => result.kind = "ok" /\ result.val = ClaimedDiff(Native)
       /\ (\E c \in Native : RateAtEnd(c).kind # "ok")
          => result.kind = "PriceNotFoundError"
       /\ \A i \in DOMAIN result.log : result.log[i][3] = call.end

\* 150 USD at date 0, 120 USD and 7 EUR at date 2, USD -> EUR recorded at
\* 0.90 on date 0 and at 0.92 on date 2: the difference is
\* -30 * 0.92 + 7 = -20.6 EUR
C11_Witness ==
    /\ DiffCall /\ call.account = 1 /\ call.start = 0 /\ call.end = 2
    /\ call.currency = "EUR" /\ acct_commodity[1] = "USD"
    /\ sign[1] = 1 /\ sign[2] = 1
    /\ {p.date : p \in prices} = {0, 2}
    /\ "EUR" \in DOMAIN AtEnd \ DOMAIN AtStart
    /\ result.kind = "ok" /\ result.val = Frac(-103, 5)

\* the accounts of the queried subtree, and those holding a given commodity
Subtree == {a \in DOMAIN parent : Under(a, call.account)}
Holding(c) == {a \in Subtree : acct_commodity[a] = c}

\* the balance one account contributes: its own balance up to the date with
\* its natural sign, converted when a currency is given
Contribution(a) ==
    FMul(FromInt(sign[a]),
         FMul(OwnBalance(a, call.at_date),
              Factor(a, TargetCommodity(a, call.currency), call.at_date, None).val))

RECURSIVE Contributions(_)
Contributions(as) ==
    IF as = {} THEN Zero
    ELSE LET a == CHOOSE x \in as : TRUE
         IN  FAdd(Contribution(a), Contributions(as \ {a}))

Convertible(a) ==
    Factor(a, TargetCommodity(a, call.currency), call.at_date, None).kind = "ok"

\* C12 as claimed: with a currency given and a non-zero balance in the
\* subtree, the mapping has a single entry, holding the converted total.
C12_AsClaimed ==
    (/\ ByCurrencyCall /\ call.currency # NoCommodity /\ result.kind = "ok"
     /\ \E a \in Subtree : OwnBalance(a, call.at_date) # Zero)
    => /\ Cardinality(DOMAIN result.series) = 1
       /\ \A k \in DOMAIN result.series : result.series[k] = Contributions(Subtree)

\* C12, amended: the mapping has one entry per native currency code held by
\* an account of the subtree with a non-zero own balance, with or without a
\* currency given; the entry is the sum of the naturally signed own balances
\* of the subtree's accounts in that native currency, each converted into the
\* given currency when there is one and unconverted otherwise.  The call
\* raises exactly when an account of the subtree cannot be converted.
C12_KeyedByNativeCurrency ==
    ByCurrencyCall
    => /\ (\A a \in Subtree : Convertible(a))
          => /\ result.kind = "ok"
             /\ DOMAIN result.series =
                  {acct_commodity[a] : a \in {x \in Subtree : OwnBalance(x, call.at_date) # Zero}}
             /\ \A k \in DOMAIN result.series : result.series[k] = Contributions(Holding(k))
       /\ (\E a \in Subtree : ~Convertible(a)) => result.kind # "ok"

\* 120 USD and 7 EUR asked for in EUR, USD -> EUR at 0.92: two entries, 110.4
\* under USD and 7 under EUR
C12_Witness ==
    /\ ByCurrencyCall /\ call.account = 1 /\ call.at_date = 2 /\ call.currency = "EUR"
    /\ acct_commodity[1] = "USD" /\ sign[1] = 1 /\ sign[2] = 1
    /\ {p.date : p \in prices} = {2}
    /\ result.kind = "ok"
    /\ DOMAIN result.series = {"USD", "EUR"}
    /\ result.series["USD"] = Frac(552, 5)
    /\ result.series["EUR"] = FromInt(7)

---------------------------------------------------------------------------
(* Properties of top_and_other, under SpecTop                              *)

TopCall == call.op = "top_and_other"

RECURSIVE RowSumOver(_, _, _)
RowSumOver(values, cs, r) ==
    IF cs = {} THEN 0
    ELSE LET c == CHOOSE x \in cs : TRUE
         IN  values[c][r] + RowSumOver(values, cs \ {c}, r)

\* C13: in every row the values of the reduced output sum to what the values
\* of the input sum to, for every top_n >= 0 and also for an input that has
\* a category named "Other".
C13_TotalsPreserved ==
    TopCall
    => \A r \in 1..call.in_data.rows :
          RowSumOver(result.data.values, Range(result.data.columns), r)
          = RowSumOver(call.in_data.values, call.in_data.columns, r)

\* the number of categories kept, and the categories left out
Kept == IF call.top_n < Cardinality(call.in_data.columns)
        THEN call.top_n ELSE Cardinality(call.in_data.columns)
Excluded == call.in_data.columns \ {result.data.columns[i] : i \in 1..Kept}

\* C14: the output is the top_n categories of highest total, values
\* unchanged, in descending order of total, followed last by one "Other"
\* category holding the row-wise sum of the categories left out ("Other" is
\* there, and zero, when nothing is left out).
C14_TopThenOther ==
    TopCall
    => /\ Len(result.data.columns) = Kept + 1
       /\ result.data.columns[Kept + 1] = "Other"
       /\ \A i \in 1..Kept :
            /\ result.data.columns[i] \in call.in_data.columns
            /\ result.data.values[result.data.columns[i]]
                 = call.in_data.values[result.data.columns[i]]
            /\ \A j \in 1..Kept :
                 i < j => Totals(call.in_data)[result.data.columns[i]]
                          >= Totals(call.in_data)[result.data.columns[j]]
            /\ \A c \in Excluded :
                 Totals(call.in_data)[result.data.columns[i]] >= Totals(call.in_data)[c]
       /\ Cardinality({result.data.columns[i] : i \in 1..Kept}) = Kept
       /\ \A r \in 1..call.in_data.rows :
            result.data.values["Other"][r] = RowSumOver(call.in_data.values, Excluded, r)

---------------------------------------------------------------------------
(* Inverse consistency of currency_conversion_on_date, under SpecSym       *)

\* every recorded price has the price the other way round, of the same date
\* and the reciprocal value
Symmetric == \A p \in prices : Reciprocal(p) \in prices

\* the conversion the other way round, for the same date
Back(closest_conv_cache) ==
    currency_conversion_on_date(call.currency, call.commodity, call.on_date,
                                closest_conv_cache)

\* C15: over a symmetric price table, the factor from A to B (A # B) for a
\* date is the reciprocal of the factor from B to A for that date, whether
\* the conversion back is made without a cache, with the cache the call was
\* passed or with the cache as the call left it; the one raises exactly when
\* the other does.
C15_InverseConsistent ==
    (ConvCall /\ call.commodity # call.currency /\ Symmetric)
    => /\ result.kind = Back(None).kind
       /\ result.kind = "ok"
          => /\ result.val = FInv(Back(None).val)
             /\ call.cache_in.some
                => /\ result.val = FInv(Back(call.cache_in).val)
                   /\ result.val = FInv(Back(cache).val)

\* prices on dates 0 and 2, the factor asked for date 1 with a cache: the
\* earlier record serves both directions
C15_Witness ==
    /\ ConvCall /\ call.commodity = "EUR" /\ call.currency = "USD" /\ call.on_date = 1
    /\ Symmetric /\ {p.date : p \in prices} = {0, 2}
    /\ call.cache_in.some
    /\ result.kind = "ok" /\ result.val = Frac(100, 90)
    /\ Back(cache).val = Frac(90, 100)

---------------------------------------------------------------------------
(* Properties of ecb_fx_rate_range, under SpecEcb                          *)

EcbCall == call.op = "ecb_fx_rate_range"

\* the dates of the file between start_date and end_date, both included,
\* that are not excluded
Between ==
    {d \in DOMAIN call.xml_root.cubes :
        call.start_date <= d /\ d <= call.end_date /\ d \notin call.exclude_dates}

RateOn(d) == ecb_fx_rate(call.xml_root, d, call.to_currency, call.from_currency)

\* C16: a file without the top-level Cube fails with BadDataError; otherwise
\* the call returns a rate for exactly the dates of the file from start_date
\* to end_date, both included, that are not excluded and whose rate can be
\* computed, and warns about the others of these dates.
C16_InclusiveRange ==
    EcbCall
    => /\ ~call.xml_root.top_cube => result.kind = "BadDataError"
       /\ call.xml_root.top_cube
          => /\ result.kind = "ok"
             /\ DOMAIN result.rates = {d \in Between : RateOn(d).kind = "ok"}
             /\ \A d \in DOMAIN result.rates : result.rates[d] = RateOn(d).val
             /\ result.warned = {d \in Between : RateOn(d).kind # "ok"}

---------------------------------------------------------------------------
(* Properties of the cache and of the signs within one recursive           *)
(* get_historical_balance, under SpecTree                                  *)

\* C17: within one recursive call for a date, the price search for a
\* (from-commodity, to-commodity, date) key is made at most once, also when
\* the caller passed no cache and the queried account is held in the target
\* commodity.
C17_OneSearchPerKey ==
    (RecursiveCall /\ call.at_date # NoDate)
    => \A i, j \in DOMAIN result.log : i # j => result.log[i] # result.log[j]

\* the same call made with natural_sign = False
Unsigned ==
    get_historical_balance(call.account, TRUE, call.commodity, FALSE, call.at_date, None)

\* the balance of a subtree in the target commodity with no sign attribute
\* looked at: the converted own balance plus the same of every child
RECURSIVE SignFree(_)
RECURSIVE SignFreeSum(_)
SignFree(a) ==
    FAdd(FMul(OwnBalance(a, call.at_date), Factor(a, Target, call.at_date, None).val),
         SignFreeSum(Children(a)))
SignFreeSum(ks) ==
    IF ks = {} THEN Zero
    ELSE LET k == CHOOSE x \in ks : TRUE
         IN  FAdd(SignFree(k), SignFreeSum(ks \ {k}))

\* C18: a recursive balance is the queried account's sign (when natural_sign
\* is set, else 1) times the balance computed with natural_sign = False, and
\* that balance depends on no sign attribute at all: every descendant
\* contributes its converted balance unsigned, whatever its own sign.
C18_OnlyOwnSignApplied ==
    RecursiveCall
    => /\ result.kind = Unsigned.kind
       /\ result.kind = "ok"
          => /\ result.val =
                  FMul(FromInt(IF call.natural_sign THEN sign[call.account] ELSE 1),
                       Unsigned.val)
             /\ Unsigned.val = SignFree(call.account)

\* an account of sign -1 with a child of sign -1 and a grandchild, asked for
\* with natural_sign = True
C18_Witness ==
    /\ RecursiveCall /\ call.natural_sign /\ call.account = 1
    /\ sign[1] = -1 /\ sign[2] = -1 /\ parent[3] = 2
    /\ result.kind = "ok" /\ result.val # Zero
    /\ OwnBalance(2, call.at_date) # Zero /\ OwnBalance(3, call.at_date) # Zero
    /\ result.val = FMul(FromInt(-1), SignFree(1))

---------------------------------------------------------------------------
(* Properties of balances, under SpecBal                                   *)

BalancesCall == call.op = "balances"

Distinct(names) == \A i, j \in 1..Len(names) : i # j => names[i] # names[j]

\* the balance of the account a full name leads to, as balances asks for it
BalanceOfPath(full_name) ==
    get_historical_balance(get_account(full_name).account, TRUE, call.currency, TRUE,
                           call.at_date, None)

\* C19: for a list of distinct full names of accounts, also of two accounts
\* whose names end in the same last segment under different parents, the
\* result has as many entries as the list, and the entry of each account
\* holds that account's balance.
C19_OneEntryPerAccount ==
    (/\ BalancesCall
     /\ Distinct(call.account_names)
     /\ AllResolvable(call.account_names)
     /\ \A i \in 1..Len(call.account_names) :
          BalanceOfPath(call.account_names[i]).kind = "ok")
    => /\ result.kind = "ok"
       /\ Cardinality(DOMAIN result.series) = Len(call.account_names)
       /\ \A i \in 1..Len(call.account_names) :
            result.series[acct_name[get_account(call.account_names[i]).account]]
              = BalanceOfPath(call.account_names[i]).val

=============================================================================
